---- MODULE Spec2Model ----
(***************************************************************************)
(* Model of the Tesseract package: the integer <-> combination <->         *)
(* multiset codec (macaulay.py), its utilities (_util.py) and the Multiset *)
(* container (Multiset.py).                                                *)
(*                                                                         *)
(* Python values are modelled as follows.                                  *)
(*   - a call's outcome is a record [err, val]: err = "none" when the call *)
(*     returns val, otherwise the name of the exception it raises;         *)
(*   - a Multiset element is a tagged pair: <<0, v>> is the integer v,     *)
(*     <<1, s>> is the tuple of the elements of the sequence s,            *)
(*     <<2, c>> is the one-character string number c ("a" = 1, "b" = 2);   *)
(*   - a combination (a Python set of integers) is a set of integers;      *)
(*   - a Multiset is the content of its SortedList, a sequence of          *)
(*     elements.                                                           *)
(***************************************************************************)
EXTENDS Integers, Sequences, FiniteSets, TLC

VARIABLES
    op,          \* name of the last call made ("idle" before any call)
    args,        \* the arguments of that call
    ret,         \* its outcome, [err, val]
    sortedlist,  \* Multiset.__sortedlist of the Multiset under test (self)
    hashseed,    \* the interpreter's string-hash randomisation, fixed per run
    heap,        \* the __sortedlist of the other Multiset objects the caller
                 \* holds: heap.other, an operand, and heap.result, the object
                 \* a call created
    wrapped,     \* the generator g handed to ez_generator_interface
    frame,       \* the frame of the ez_generator_interface generator: where
                 \* it is suspended and its locals x, awaiting_input, stop_exc
    log,         \* the steps made on the interface and on g so far
    driver       \* who drives the interface: a caller of its own ("free"), or
                 \* the frame of generator_dialogue: where it stands in its
                 \* loop and its locals prompt and the reply input gave

\* the state of a dialogue through ez_generator_interface
dialogue == <<wrapped, frame, log, driver>>

vars == <<op, args, ret, sortedlist, hashseed, heap, dialogue>>

---------------------------------------------------------------------------
(* Bounds of the model *)

\* integers handed to the codec are 0..MaxI
MaxI == 12
\* alphabet sizes are 1..MaxN
MaxN == 6
\* members of the combinations handed to combination_to_integer are 0..MaxElem
MaxElem == 5
\* combination sizes are 0..MaxK
MaxK == 3
\* explicit epoch sequences have at most MaxEpochLen entries ...
MaxEpochLen == 3
\* ... each of size 0..MaxEpochSize
MaxEpochSize == 2
\* search_maxsatisfying: initial ranges over -MaxNeg..MaxInitial
MaxNeg == 2
MaxInitial == 3
\* thresholds of the monotone predicates range over -MaxNeg..MaxThreshold
MaxThreshold == 9
\* the growth steps n*base of _increasefunc have base in 2..MaxBase; the
\* default base, sys.maxsize + 1, is beyond the checker's integers and is
\* stood in for by MaxBase (the value returned does not depend on the base)
MaxBase == 4
\* a MixedBase has at most MaxDigits radixes, each in 1..MaxRadix; the digits
\* handed to to_int range over -1..MaxRadix
MaxDigits == 2
MaxRadix == 3
\* string_rank / string_unrank: alphabet sizes 2..MaxAlphabet, strings of
\* at most MaxStrLen characters
MaxAlphabet == 3
MaxStrLen == 3
\* the Multiset under test holds at most MaxLen elements
\* a wrapped generator yields at most MaxPrompts prompts, each in
\* 1..MaxPrompt; the values sent to it and the value it returns are in
\* 0..MaxValue; the driver makes at most MaxSteps steps
MaxPrompts == 2
MaxPrompt == 2
MaxValue == 1
MaxSteps == 5
MaxLen == 2
\* a set operation is handed at most MaxOthers other collections ...
MaxOthers == 2
\* ... holding at most MaxOtherLen elements in all
MaxOtherLen == 2

---------------------------------------------------------------------------
(* Outcomes *)

Ok(v) == [err |-> "none", val |-> v]

Raise(e) == [err |-> e, val |-> <<>>]

---------------------------------------------------------------------------
(* math.comb *)

RECURSIVE comb(_, _)
comb(n, k) ==
    IF k > n THEN 0
    ELSE IF k = 0 THEN 1
    ELSE (comb(n - 1, k - 1) * n) \div k

---------------------------------------------------------------------------
(* _util.fit_to_epoch *)

\* The epochs argument: an iterable of sizes, or a callable index -> size
\* (the lambdas of macaulay.py and _util.py), mapped over itertools.count().
IterEpochs(sizes) == [kind |-> "iter", sizes |-> sizes, n |-> 0]

MulticombEpochs(n) == [kind |-> "multicomb", sizes |-> <<>>, n |-> n]

PowerEpochs(k) == [kind |-> "power", sizes |-> <<>>, n |-> k]

\* k**l
RECURSIVE pow(_, _)
pow(k, l) == IF l <= 0 THEN 1 ELSE k * pow(k, l - 1)

\* whether the (mapped) iterable yields an item number epoch_index
EpochsHas(epochs, epoch_index) ==
    epochs.kind # "iter" \/ epoch_index < Len(epochs.sizes)

\* the item number epoch_index
EpochsAt(epochs, epoch_index) ==
    IF epochs.kind = "iter"
    THEN epochs.sizes[epoch_index + 1]
    ELSE IF epochs.kind = "power"
    THEN pow(epochs.n, epoch_index)                     \* lambda l: k**l
    ELSE comb(epochs.n + epoch_index - 1, epoch_index)  \* lambda k: multicomb(n, k)

\* the test of the loop body: does i lie beyond the current epoch?
fit_to_epoch_test(i, epoch_offset, current_epoch_offset) ==
    (i - epoch_offset) > current_epoch_offset

RECURSIVE fit_to_epoch_loop(_, _, _, _)
fit_to_epoch_loop(i, epochs, epoch_index, epoch_offset) ==
    IF ~EpochsHas(epochs, epoch_index)
    THEN Raise("ValueError")
    ELSE LET current_epoch_offset == EpochsAt(epochs, epoch_index) IN
         IF fit_to_epoch_test(i, epoch_offset, current_epoch_offset)
         THEN fit_to_epoch_loop(i, epochs, epoch_index + 1,
                                epoch_offset + current_epoch_offset)
         ELSE Ok(<<epoch_index, epoch_offset>>)

fit_to_epoch(i, epochs) == fit_to_epoch_loop(i, epochs, 0, 0)

---------------------------------------------------------------------------
(* _util.string_rank and _util.string_unrank *)

\* A string is the sequence of its characters; a character is a record
\* holding its code point.
chr(c) == [codepoint |-> c]

ord(ch) == ch.codepoint

\* the loop of string_rank over enumerate(map(ord, s)), from position j on
RECURSIVE string_rank_loop(_, _, _, _, _)
string_rank_loop(s, k, j, i, offset) ==
    IF j >= Len(s) THEN Ok(i + offset)
    ELSE LET c == ord(s[j + 1]) IN
         IF ~(0 <= c /\ c < k) THEN Raise("AssertionError")
         ELSE string_rank_loop(s, k, j + 1, i * k + c, offset + pow(k, j))

string_rank(s, k) == string_rank_loop(s, k, 0, 0, 0)

\* the divmod loop of string_unrank: range(length) passes, from the state
\* (i, l); gives the final i and l
RECURSIVE string_unrank_loop(_, _, _, _)
string_unrank_loop(i, k, passes, l) ==
    IF passes <= 0 THEN [i |-> i, l |-> l]
    ELSE string_unrank_loop(i \div k, k, passes - 1, Append(l, i % k))

\* l.reverse()
list_reverse(l) == [p \in 1..Len(l) |-> l[Len(l) + 1 - p]]

\* _str_ish(): str().join(map(chr, it))
str_ish(it) == [p \in 1..Len(it) |-> chr(it[p])]

string_unrank(i, k) ==
    LET fit == fit_to_epoch(i, PowerEpochs(k)) IN
    IF fit.err # "none" THEN Raise(fit.err)
    ELSE LET length == fit.val[1]
             offset == fit.val[2]
             done   == string_unrank_loop(i - offset, k, length, <<>>)
         IN  IF done.i # 0 THEN Raise("AssertionError")
             ELSE Ok(str_ish(list_reverse(done.l)))

---------------------------------------------------------------------------
(* _util.search_maxsatisfying *)

\* The predicates handed to the search.  A predicate that holds at initial,
\* is false for all large arguments and never becomes true again once false
\* is, from initial upwards, "n <= t" for a threshold t; "square_le" is
\* n*n <= t; "comb_le" is the lambda of integer_to_combination,
\* not comb(n, j) > remainder.
ThresholdPredicate(t) == [kind |-> "threshold", t |-> t, j |-> 0]

SquarePredicate(t) == [kind |-> "square_le", t |-> t, j |-> 0]

CombPredicate(j, remainder) == [kind |-> "comb_le", t |-> remainder, j |-> j]

predicate_holds(predicate, n) ==
    CASE predicate.kind = "threshold" -> n <= predicate.t
      [] predicate.kind = "square_le" -> n * n <= predicate.t
      [] predicate.kind = "comb_le"   -> ~(comb(n, predicate.j) > predicate.t)

\* The _increasefunc argument: the default shape lambda n: n*base, or
\* lambda n: n*n + 1.
TimesStep(base) == [kind |-> "times", base |-> base]

SquarePlusOneStep == [kind |-> "square_plus_one", base |-> 0]

\* _increasefunc(n)
increasefunc(n, step) ==
    IF step.kind = "times" THEN n * step.base ELSE n * n + 1

\* 1. exponential approach to establish the upper bound; yields
\*    <<lower_bound, upper_bound>>
RECURSIVE search_expand(_, _, _, _)
search_expand(predicate, lower_bound, upper_bound, step) ==
    IF predicate_holds(predicate, upper_bound)
    THEN search_expand(predicate, upper_bound, increasefunc(upper_bound, step), step)
    ELSE <<lower_bound, upper_bound>>

search_midpoint(lower_bound, upper_bound) ==
    lower_bound + (upper_bound - lower_bound) \div 2

\* search_bisect with the reset "guess = lower_bound" of line 99 left out
RECURSIVE search_bisect_stale_guess(_, _, _, _)
search_bisect_stale_guess(predicate, lower_bound, upper_bound, guess) ==
    IF (upper_bound - lower_bound) > 1
    THEN LET g == search_midpoint(lower_bound, upper_bound) IN
         IF ~predicate_holds(predicate, g)
         THEN search_bisect_stale_guess(predicate, lower_bound, g, g)
         ELSE search_bisect_stale_guess(predicate, g, upper_bound, g)
    ELSE guess

\* 2. binary search; yields the final guess
RECURSIVE search_bisect(_, _, _, _)
search_bisect(predicate, lower_bound, upper_bound, guess) ==
    IF (upper_bound - lower_bound) > 1
    THEN LET g == search_midpoint(lower_bound, upper_bound) IN
         IF ~predicate_holds(predicate, g)
         THEN search_bisect(predicate, lower_bound, g, lower_bound)
         ELSE search_bisect(predicate, g, upper_bound, g)
    ELSE guess

search_maxsatisfying(predicate, initial, step) ==
    IF initial < 0
    THEN \* line 83 calls _search_maxsatisfying, a name _util.py never binds
         Raise("NameError")
    ELSE IF ~predicate_holds(predicate, initial)
    THEN Raise("ValueError")
    ELSE LET bracket == search_expand(predicate, initial, initial + 1, step)
             guess   == search_bisect(predicate, bracket[1], bracket[2], bracket[1])
         IN  IF predicate_holds(predicate, guess) /\ ~predicate_holds(predicate, guess + 1)
             THEN Ok(guess)
             ELSE Raise("AssertionError")

---------------------------------------------------------------------------
(* _util.MixedBase; self.base is a sequence of radixes *)

\* math.prod(self.base)
RECURSIVE order(_)
order(base) == IF base = <<>> THEN 1 ELSE Head(base) * order(Tail(base))

\* the loop of to_int over zip(reversed(self.base), value, strict=True), at
\* its j-th pair, with i the value folded so far
RECURSIVE to_int_loop(_, _, _, _)
to_int_loop(base, value, j, i) ==
    IF j > Len(base) /\ j > Len(value) THEN Ok(i)
    ELSE IF j > Len(base) \/ j > Len(value)
    THEN Raise("ValueError")  \* zip(strict=True): one argument is shorter
    ELSE LET b     == base[Len(base) + 1 - j]  \* reversed(self.base)
             digit == value[j]
         IN  IF ~(0 <= digit /\ digit < b)
             THEN Raise("ValueError")
             ELSE to_int_loop(base, value, j + 1, i * b + digit)

to_int(base, value) == to_int_loop(base, value, 1, 0)

\* the object ... (Ellipsis) and a list, as values of one variable
Ellipsis == [type |-> "ellipsis", items |-> <<>>]

\* value.append(digit): an ellipsis object has no attribute append
list_append(value, digit) ==
    IF value.type = "ellipsis" THEN Raise("AttributeError")
    ELSE Ok([type |-> "list", items |-> Append(value.items, digit)])

\* the loop of from_int over the radixes from position p on
RECURSIVE from_int_loop(_, _, _, _)
from_int_loop(base, p, i, value) ==
    IF p > Len(base)
    THEN IF i # 0 THEN Raise("ValueError")
         ELSE IF value.type = "ellipsis"
         THEN Raise("AttributeError")  \* value.reverse()
         ELSE Ok([q \in 1..Len(value.items) |->
                     value.items[Len(value.items) + 1 - q]])
    ELSE LET b        == base[p]
             appended == list_append(value, i % b)
         IN  IF appended.err # "none" THEN Raise(appended.err)
             ELSE from_int_loop(base, p + 1, i \div b, appended.val)

\* from_int: value = ... is what line 219 assigns
from_int(base, i) == from_int_loop(base, 1, i, Ellipsis)

---------------------------------------------------------------------------
(* macaulay: the combinatorial number system *)

\* sorted(s) for a set of integers
RECURSIVE sorted_set(_)
sorted_set(s) ==
    IF s = {} THEN <<>>
    ELSE LET least == CHOOSE x \in s : \A y \in s : x <= y
         IN  <<least>> \o sorted_set(s \ {least})

\* integer_to_combination_loop with "remainder -= _comb(elem, j)" left out
RECURSIVE integer_to_combination_loop_stale_remainder(_, _, _)
integer_to_combination_loop_stale_remainder(j, remainder, s) ==
    IF j < 1
    THEN IF remainder = 0 THEN Ok(s) ELSE Raise("AssertionError")
    ELSE LET found == search_maxsatisfying(CombPredicate(j, remainder), 0, TimesStep(MaxBase)) IN
         IF found.err # "none" THEN Raise(found.err)
         ELSE IF found.val \in s THEN Raise("AssertionError")
         ELSE integer_to_combination_loop_stale_remainder(j - 1, remainder,
                                                          s \cup {found.val})

\* the for loop of integer_to_combination, j = k, k-1, ..., 1
RECURSIVE integer_to_combination_loop(_, _, _)
integer_to_combination_loop(j, remainder, s) ==
    IF j < 1
    THEN IF remainder = 0 THEN Ok(s) ELSE Raise("AssertionError")
    ELSE LET found == search_maxsatisfying(CombPredicate(j, remainder), 0, TimesStep(MaxBase)) IN
         IF found.err # "none" THEN Raise(found.err)
         ELSE IF found.val \in s THEN Raise("AssertionError")
         ELSE integer_to_combination_loop(j - 1, remainder - comb(found.val, j),
                                          s \cup {found.val})

integer_to_combination(i, k) ==
    IF i < 0 THEN Raise("ValueError")
    ELSE IF k < 1 /\ i > 0 THEN Raise("ValueError")
    ELSE integer_to_combination_loop(k, i, {})

\* combination_to_integer_sum with enumerate() counting from 0 instead of 1
RECURSIVE combination_to_integer_sum_from0(_, _)
combination_to_integer_sum_from0(elems, j) ==
    IF j > Len(elems) THEN 0
    ELSE comb(elems[j], j - 1) + combination_to_integer_sum_from0(elems, j + 1)

\* sum(comb(elem, j) for j, elem in enumerate(sorted(s), start=1)), from j on
RECURSIVE combination_to_integer_sum(_, _)
combination_to_integer_sum(elems, j) ==
    IF j > Len(elems) THEN 0
    ELSE comb(elems[j], j) + combination_to_integer_sum(elems, j + 1)

combination_to_integer(s) == combination_to_integer_sum(sorted_set(s), 1)

---------------------------------------------------------------------------
(* Multiset.py: elements, the universal key, the SortedList *)

IntElem(v) == <<0, v>>

TupleElem(items) == <<1, items>>

StrElem(c) == <<2, c>>

\* a bytes object of one byte: b"a" is BytesElem(1), b"b" is BytesElem(2)
BytesElem(c) == <<3, c>>

is_real(obj) == obj[1] = 0

is_tuple(obj) == obj[1] = 1

\* hash() of a one-character str or of a one-byte bytes object.  The hashes
\* are randomised per interpreter run, so either order of hash("a") and
\* hash("b") occurs; hash is not injective: a str and the bytes object with
\* the same ASCII content have the same hash, hash("a") = hash(b"a"), though
\* "a" == b"a" is False
hash(obj) == IF hashseed = 0 THEN obj[2] ELSE 0 - obj[2]

RECURSIVE hashable_universal_key(_)
hashable_universal_key(obj) ==
    IF is_real(obj)
    THEN <<0, obj[2]>>
    ELSE IF is_tuple(obj)
    THEN <<1, [p \in 1..Len(obj[2]) |-> hashable_universal_key(obj[2][p])]>>
    ELSE <<2, hash(obj)>>

\* Python's < on two keys: (0, number), (1, tuple of keys) or (2, hash);
\* tuples compare by their first pair of unequal items, a proper prefix
\* being the lesser
RECURSIVE key_lt(_, _)
RECURSIVE key_seq_lt(_, _)
key_lt(k1, k2) ==
    IF k1[1] # k2[1] THEN k1[1] < k2[1]
    ELSE IF k1[1] = 1 THEN key_seq_lt(k1[2], k2[2])
    ELSE k1[2] < k2[2]

key_seq_lt(s1, s2) ==
    IF s2 = <<>> THEN FALSE
    ELSE IF s1 = <<>> THEN TRUE
    ELSE IF Head(s1)[1] = Head(s2)[1] /\ Head(s1) = Head(s2)
    THEN key_seq_lt(Tail(s1), Tail(s2))
    ELSE key_lt(Head(s1), Head(s2))

\* Python's == on two elements
py_eq(a, b) == a[1] = b[1] /\ a = b

\* SortedList.add: insert after every item whose key is not greater
SortedList_add(list, value) ==
    LET pos == Cardinality({p \in 1..Len(list) :
                   ~key_lt(hashable_universal_key(value),
                           hashable_universal_key(list[p]))})
    IN  SubSeq(list, 1, pos) \o <<value>> \o SubSeq(list, pos + 1, Len(list))

RECURSIVE SortedList_update(_, _)
SortedList_update(list, iterable) ==
    IF iterable = <<>> THEN list
    ELSE SortedList_update(SortedList_add(list, Head(iterable)), Tail(iterable))

SortedList_count(list, value) ==
    Cardinality({p \in 1..Len(list) : py_eq(list[p], value)})

\* SortedList.remove: delete the first item equal to value
SortedList_remove(list, value) ==
    LET hits == {p \in 1..Len(list) : py_eq(list[p], value)} IN
    IF hits = {} THEN [err |-> "ValueError", val |-> list]
    ELSE LET pos == CHOOSE p \in hits : \A q \in hits : p <= q
         IN  Ok(SubSeq(list, 1, pos - 1) \o SubSeq(list, pos + 1, Len(list)))

\* value in SortedList
SortedList_contains(list, value) ==
    \E p \in 1..Len(list) : py_eq(list[p], value)

\* SortedList.discard: delete the first item equal to value, if there is one
SortedList_discard(list, value) ==
    IF SortedList_contains(list, value) THEN SortedList_remove(list, value).val ELSE list

\* Multiset(iterable): a fresh SortedList extended by the iterable
Multiset(iterable) == SortedList_update(<<>>, iterable)

\* Multiset._maybe_cast_collection on a list or a Multiset
maybe_cast_collection(obj) == Multiset(obj)

RECURSIVE maybe_cast_all(_)
maybe_cast_all(others) ==
    IF others = <<>> THEN <<>>
    ELSE <<maybe_cast_collection(Head(others))>> \o maybe_cast_all(Tail(others))

\* itertools.repeat(elem, count) as a list
RECURSIVE repeat(_, _)
repeat(elem, count) ==
    IF count <= 0 THEN <<>> ELSE <<elem>> \o repeat(elem, count - 1)

\* Multiset.from_multiplicities on a list of <<element, multiplicity>>
RECURSIVE chain_repeat(_)
chain_repeat(items) ==
    IF items = <<>> THEN <<>>
    ELSE repeat(Head(items)[1], Head(items)[2]) \o chain_repeat(Tail(items))

from_multiplicities(items) == Multiset(chain_repeat(items))

---------------------------------------------------------------------------
(* Multiset.py: the joint group-by walk *)

\* the sentinel "stop" of joint_groupby
Stop == <<9, 0>>

\* Python's < on two elements: integers compare numerically, strings and
\* tuples lexicographically, elements of two different types not at all
RECURSIVE native_lt(_, _)
RECURSIVE native_seq_lt(_, _)
native_lt(a, b) ==
    IF a[1] # b[1] THEN "TypeError"
    ELSE IF is_tuple(a) THEN native_seq_lt(a[2], b[2])
    ELSE IF a[2] < b[2] THEN "lt" ELSE "ge"

native_seq_lt(s1, s2) ==
    IF s2 = <<>> THEN "ge"
    ELSE IF s1 = <<>> THEN "lt"
    ELSE IF py_eq(Head(s1), Head(s2))
    THEN native_seq_lt(Tail(s1), Tail(s2))
    ELSE native_lt(Head(s1), Head(s2))

\* key(a) < key(b) for the key of _choice, (0, val) or (1,) for stop: the
\* tuples are compared item by item, with == first and < on the first pair
\* of items that differ
choice_key_lt(a, b) ==
    IF a = Stop THEN "ge"
    ELSE IF b = Stop THEN "lt"
    ELSE IF py_eq(a, b) THEN "ge"
    ELSE native_lt(a, b)

\* min(vals, key=...) from position p on, best being the least so far
RECURSIVE choice_scan(_, _, _)
choice_scan(vals, p, best) ==
    IF p > Len(vals) THEN Ok(best)
    ELSE LET c == choice_key_lt(vals[p], best) IN
         IF c = "TypeError" THEN Raise("TypeError")
         ELSE choice_scan(vals, p + 1, IF c = "lt" THEN vals[p] ELSE best)

\* _choice(buffer) with ordered=True
choice(vals) ==
    IF vals = <<>> THEN Ok(Stop) ELSE choice_scan(vals, 2, vals[1])

\* _grouper(i, tgtkey), exhausted: how many leading items of an iterable
\* equal the target
RECURSIVE grouper_count(_, _)
grouper_count(it, tgtkey) ==
    IF it # <<>> /\ py_eq(Head(it), tgtkey)
    THEN 1 + grouper_count(Tail(it), tgtkey)
    ELSE 0

\* joint_group_count over the unconsumed rests of the iterables; yielded
\* are the items produced so far.  The outcome holds the items produced and,
\* in err, the exception that ended the walk, if any.
RECURSIVE joint_group_count_loop(_, _)
joint_group_count_loop(iterables, yielded) ==
    LET buffer == [i \in 1..Len(iterables) |->
                      IF iterables[i] = <<>> THEN Stop ELSE Head(iterables[i])]
        tgtval == choice(buffer)
    IN  IF tgtval.err # "none" THEN [err |-> tgtval.err, val |-> yielded]
        ELSE IF tgtval.val = Stop THEN Ok(yielded)
        ELSE LET counts == [i \in 1..Len(iterables) |->
                               grouper_count(iterables[i], tgtval.val)]
                 rests  == [i \in 1..Len(iterables) |->
                               SubSeq(iterables[i], counts[i] + 1, Len(iterables[i]))]
             IN  joint_group_count_loop(rests, Append(yielded, <<tgtval.val, counts>>))

joint_group_count(iterables) == joint_group_count_loop(iterables, <<>>)

---------------------------------------------------------------------------
(* Multiset.py: the multiplicity functions of the algebra *)

soft_diff(a, b) == IF a - b > 0 THEN a - b ELSE 0

symm_diff(a, b) == IF a - b >= 0 THEN a - b ELSE b - a

\* max(counts), min(counts), reduce(soft_diff, counts)
RECURSIVE max_counts(_)
max_counts(counts) ==
    IF Len(counts) = 1 THEN counts[1]
    ELSE LET m == max_counts(Tail(counts)) IN
         IF counts[1] >= m THEN counts[1] ELSE m

RECURSIVE min_counts(_)
min_counts(counts) ==
    IF Len(counts) = 1 THEN counts[1]
    ELSE LET m == min_counts(Tail(counts)) IN
         IF counts[1] <= m THEN counts[1] ELSE m

RECURSIVE reduce_soft_diff(_)
reduce_soft_diff(counts) ==
    IF Len(counts) = 1 THEN counts[1]
    ELSE reduce_soft_diff(<<soft_diff(counts[1], counts[2])>> \o Tail(Tail(counts)))

\* the generator expressions of the __*_items methods, over the items the
\* walk produced: <<elem, multiplicity>> for delta = FALSE,
\* <<elem, amount to add or remove>> for delta = TRUE
RECURSIVE union_select(_, _)
union_select(groups, delta) ==
    IF groups = <<>> THEN <<>>
    ELSE LET elem   == Head(groups)[1]
             counts == Head(groups)[2]
             rest   == union_select(Tail(groups), delta)
         IN  IF ~delta
             THEN IF max_counts(counts) > 0
                  THEN <<<<elem, max_counts(counts)>>>> \o rest ELSE rest
             ELSE IF max_counts(counts) > counts[1]
                  THEN <<<<elem, max_counts(counts) - counts[1]>>>> \o rest ELSE rest

RECURSIVE intersection_select(_, _)
intersection_select(groups, delta) ==
    IF groups = <<>> THEN <<>>
    ELSE LET elem   == Head(groups)[1]
             counts == Head(groups)[2]
             rest   == intersection_select(Tail(groups), delta)
         IN  IF ~delta
             THEN IF min_counts(counts) > 0
                  THEN <<<<elem, min_counts(counts)>>>> \o rest ELSE rest
             ELSE IF min_counts(counts) < counts[1]
                  THEN <<<<elem, counts[1] - min_counts(counts)>>>> \o rest ELSE rest

RECURSIVE difference_select(_, _)
difference_select(groups, delta) ==
    IF groups = <<>> THEN <<>>
    ELSE LET elem   == Head(groups)[1]
             counts == Head(groups)[2]
             rest   == difference_select(Tail(groups), delta)
         IN  IF ~delta
             THEN IF reduce_soft_diff(counts) > 0
                  THEN <<<<elem, reduce_soft_diff(counts)>>>> \o rest ELSE rest
             ELSE IF reduce_soft_diff(counts) < counts[1]
                  THEN <<<<elem, counts[1] - reduce_soft_diff(counts)>>>> \o rest ELSE rest

\* the delta = FALSE expression of __symmetric_difference_items
RECURSIVE symmetric_difference_select(_)
symmetric_difference_select(groups) ==
    IF groups = <<>> THEN <<>>
    ELSE LET elem   == Head(groups)[1]
             counts == Head(groups)[2]
             rest   == symmetric_difference_select(Tail(groups))
         IN  IF counts[1] # counts[2]
             THEN <<<<elem, symm_diff(counts[1], counts[2])>>>> \o rest ELSE rest

union_items(self, others, delta) ==
    LET it == joint_group_count(<<self>> \o others) IN
    [err |-> it.err, val |-> union_select(it.val, delta)]

intersection_items(self, others, delta) ==
    LET it == joint_group_count(<<self>> \o others) IN
    [err |-> it.err, val |-> intersection_select(it.val, delta)]

difference_items(self, others, delta) ==
    LET it == joint_group_count(<<self>> \o others) IN
    [err |-> it.err, val |-> difference_select(it.val, delta)]

symmetric_difference_items(self, other) ==
    LET it == joint_group_count(<<self, other>>) IN
    [err |-> it.err, val |-> symmetric_difference_select(it.val)]

\* the delta = TRUE expression of __symmetric_difference_items, line 340:
\* the value of an item that passes the filter other_count > 0 reads
\* counts[0], and counts is bound neither in the method nor in the module
RECURSIVE symmetric_difference_select_delta(_)
symmetric_difference_select_delta(groups) ==
    IF groups = <<>> THEN Ok(<<>>)
    ELSE IF Head(groups)[2][2] > 0 THEN Raise("NameError")
    ELSE symmetric_difference_select_delta(Tail(groups))

\* list(self.__symmetric_difference_items(other, delta=True)): the items are
\* produced while the walk advances, so an item's exception comes before an
\* exception of the walk past it
symmetric_difference_items_delta(self, other) ==
    LET it       == joint_group_count(<<self, other>>)
        selected == symmetric_difference_select_delta(it.val)
    IN  IF selected.err # "none" THEN selected
        ELSE [err |-> it.err, val |-> selected.val]

---------------------------------------------------------------------------
(* Multiset.py: the operations that return a new Multiset *)

\* cls(it) consumes the whole generator before the new Multiset exists, so
\* an exception of the walk leaves no result
new_from_items(items) ==
    IF items.err # "none" THEN Raise(items.err)
    ELSE Ok(from_multiplicities(items.val))

union(self, others) ==
    new_from_items(union_items(self, maybe_cast_all(others), FALSE))

intersection(self, others) ==
    new_from_items(intersection_items(self, maybe_cast_all(others), FALSE))

difference(self, others) ==
    new_from_items(difference_items(self, maybe_cast_all(others), FALSE))

symmetric_difference(self, other) ==
    new_from_items(symmetric_difference_items(self, maybe_cast_collection(other)))

\* not any(items) for items produced while the walk advances: any() stops
\* at the first item, every item being a non-empty tuple, so an exception of
\* the walk is met only when the walk produced no item before it
not_any(it, selected) ==
    IF selected # <<>> THEN Ok(FALSE)
    ELSE IF it.err # "none" THEN Raise(it.err)
    ELSE Ok(TRUE)

\* issubset: not any(self.__intersection_items(other, delta=True))
issubset(self, other) ==
    LET it == joint_group_count(<<self, maybe_cast_collection(other)>>) IN
    not_any(it, intersection_select(it.val, TRUE))

\* __eq__: not any(self.__symmetric_difference_items(other, delta=False))
eq(self, other) ==
    LET it == joint_group_count(<<self, maybe_cast_collection(other)>>) IN
    not_any(it, symmetric_difference_select(it.val))

---------------------------------------------------------------------------
(* Multiset.py: the operations that mutate self.  Their outcome is        *)
(* [err, val] with val the content of self.__sortedlist afterwards.       *)

\* starmap(f, it) calls f(*item): the arguments an item unpacks to.  An
\* integer cannot be unpacked; a tuple unpacks to its items; a one-character
\* string unpacks to itself; a bytes object unpacks to the integers of its
\* bytes, b"a" to 97.
splat(item) ==
    IF is_real(item) THEN Raise("TypeError")
    ELSE IF is_tuple(item) THEN Ok(item[2])
    ELSE IF item[1] = 3 THEN Ok(<<IntElem(96 + item[2])>>)
    ELSE Ok(<<item>>)

\* __remove_quantity: starmap(self.__sortedlist.remove, repeat(elem, count))
RECURSIVE remove_quantity(_, _, _)
remove_quantity(list, elem, count) ==
    IF count <= 0 THEN Ok(list)
    ELSE LET unpacked == splat(elem) IN
         IF unpacked.err # "none" THEN [err |-> unpacked.err, val |-> list]
         ELSE IF Len(unpacked.val) # 1  \* remove() takes exactly one value
         THEN [err |-> "TypeError", val |-> list]
         ELSE LET removed == SortedList_remove(list, unpacked.val[1]) IN
              IF removed.err # "none" THEN removed
              ELSE remove_quantity(removed.val, elem, count - 1)

\* map_immed_noretval(self.__remove_quantity, deltas, splat=True)
RECURSIVE remove_deltas(_, _)
remove_deltas(list, deltas) ==
    IF deltas = <<>> THEN Ok(list)
    ELSE LET done == remove_quantity(list, Head(deltas)[1], Head(deltas)[2]) IN
         IF done.err # "none" THEN done
         ELSE remove_deltas(done.val, Tail(deltas))

intersection_update(self, others) ==
    LET deltas == intersection_items(self, maybe_cast_all(others), TRUE) IN
    IF deltas.err # "none" THEN [err |-> deltas.err, val |-> self]
    ELSE remove_deltas(self, deltas.val)

difference_update(self, others) ==
    LET deltas == difference_items(self, maybe_cast_all(others), TRUE) IN
    IF deltas.err # "none" THEN [err |-> deltas.err, val |-> self]
    ELSE remove_deltas(self, deltas.val)

\* extend: self.__sortedlist.update(iterable)
extend(self, iterable) == SortedList_update(self, iterable)

\* __add_quantity: self.extend(repeat(elem, count))
add_quantity(list, elem, count) == extend(list, repeat(elem, count))

\* remove: self.__remove_quantity(elem, 1)
remove(self, elem) == remove_quantity(self, elem, 1)

\* discard: while elem in self: self.__sortedlist.discard(elem)
RECURSIVE discard(_, _)
discard(self, elem) ==
    IF SortedList_contains(self, elem)
    THEN discard(SortedList_discard(self, elem), elem)
    ELSE self

\* pop: the outcome holds the element returned and, in list, the content of
\* self.__sortedlist afterwards
pop(self) ==
    IF self = <<>>
    THEN [err |-> "KeyError", val |-> <<>>, list |-> self]
    ELSE [err |-> "none", val |-> Head(self), list |-> Tail(self)]

\* map_immed_noretval(self.__add_quantity, deltas, splat=True)
RECURSIVE add_deltas(_, _)
add_deltas(list, deltas) ==
    IF deltas = <<>> THEN list
    ELSE add_deltas(add_quantity(list, Head(deltas)[1], Head(deltas)[2]), Tail(deltas))

\* update: the deltas are listed in full before the first one is applied
update(self, others) ==
    LET deltas == union_items(self, maybe_cast_all(others), TRUE) IN
    IF deltas.err # "none" THEN [err |-> deltas.err, val |-> self]
    ELSE Ok(add_deltas(self, deltas.val))

\* __include_quantity
include_quantity(list, elem, count) ==
    IF count < 0
    THEN remove_quantity(list, elem, 0 - count)
    ELSE Ok(add_quantity(list, elem, count))

\* map_immed_noretval(self.__include_quantity, deltas, splat=True)
RECURSIVE include_deltas(_, _)
include_deltas(list, deltas) ==
    IF deltas = <<>> THEN Ok(list)
    ELSE LET done == include_quantity(list, Head(deltas)[1], Head(deltas)[2]) IN
         IF done.err # "none" THEN done
         ELSE include_deltas(done.val, Tail(deltas))

symmetric_difference_update(self, other) ==
    LET deltas == symmetric_difference_items_delta(self, maybe_cast_collection(other)) IN
    IF deltas.err # "none" THEN [err |-> deltas.err, val |-> self]
    ELSE include_deltas(self, deltas.val)

---------------------------------------------------------------------------
(* Multiset.py: Multiset objects.  A call that returns a Multiset returns a *)
(* reference: "self" or "other" for an object the caller handed in,         *)
(* "result" for an object the call created.  The outcome of such a call is  *)
(* [err, ref, list], list being the content of the __sortedlist of the      *)
(* object at ref when the call returns.                                     *)

\* cls(iterable): __init__ gives the new object a SortedList of its own
new_Multiset(iterable) ==
    [err |-> "none", ref |-> "result", list |-> Multiset(iterable)]

\* the object that from_multiplicities creates for union, intersection,
\* difference and symmetric_difference, given the outcome computed above
from_multiplicities_object(outcome) ==
    IF outcome.err # "none"
    THEN [err |-> outcome.err, ref |-> "none", list |-> <<>>]
    ELSE [err |-> "none", ref |-> "result", list |-> outcome.val]

\* copy with "return self" in the place of "return Multiset(self)"
copy_returns_self(self) ==
    [err |-> "none", ref |-> "self", list |-> self]

\* copy: return Multiset(self)
copy(self) == new_Multiset(self)

\* __add__: result = self.copy(); result.extend(other); return result
add_operator(self, other) ==
    LET result == copy(self) IN
    [err |-> "none", ref |-> result.ref, list |-> extend(result.list, other)]

\* __iadd__: self.extend(other); return self
iadd_operator(self, other) ==
    [err |-> "none", ref |-> "self", list |-> extend(self, other)]

---------------------------------------------------------------------------
(* macaulay: the set <-> multiset shift and the variable-size codec *)

\* sorted(ms) for a Multiset of integers, as a list of integers
RECURSIVE sorted_ints(_)
sorted_ints(ms) ==
    IF ms = <<>> THEN <<>>
    ELSE LET least == CHOOSE p \in 1..Len(ms) : \A q \in 1..Len(ms) : ms[p][2] <= ms[q][2]
         IN  <<ms[least][2]>> \o
             sorted_ints(SubSeq(ms, 1, least - 1) \o SubSeq(ms, least + 1, Len(ms)))

combination_to_multiset(s) ==
    LET elems == sorted_set(s) IN
    Multiset([p \in 1..Len(elems) |-> IntElem(elems[p] - (p - 1))])

multiset_to_combination(ms) ==
    LET elems == sorted_ints(ms) IN
    {elems[p] + (p - 1) : p \in 1..Len(elems)}

multicomb(n, k) == comb(n + k - 1, k)

multiset_to_integer(ms) == combination_to_integer(multiset_to_combination(ms))

integer_to_multiset(i, k) ==
    LET c == integer_to_combination(i, k) IN
    IF c.err # "none" THEN Raise(c.err) ELSE Ok(combination_to_multiset(c.val))

integer_to_varmultiset(i, n) ==
    LET fit == fit_to_epoch(i, MulticombEpochs(n)) IN
    IF fit.err # "none" THEN Raise(fit.err)
    ELSE integer_to_multiset(i - fit.val[2], fit.val[1])

RECURSIVE multicomb_sum(_, _)
multicomb_sum(n, k) ==
    IF k <= 0 THEN 0 ELSE multicomb(n, k - 1) + multicomb_sum(n, k - 1)

varmultiset_to_integer(ms, n) ==
    LET k      == Len(ms)
        offset == multicomb_sum(n, k)
    IN  multiset_to_integer(ms) + offset

---------------------------------------------------------------------------
(* _util.ez_generator_interface and _util.generator_dialogue *)

\* Python's None
None == [type |-> "NoneType"]

\* the StopIteration exception a generator raises when it returns value
StopIteration(value) == [type |-> "StopIteration", value |-> value]

\* a local variable that is not bound (x = None; del x)
Unbound == [type |-> "unbound"]

\* The generator of the docstring's example, with a return value: for each
\* (question, correct_answer) of questions it yields the question, takes the
\* answer sent in reply and raises ValueError unless int(answer) is
\* correct_answer; after the last it returns value.  yielded counts the
\* questions it has yielded, received lists the answers it was sent; state
\* is "created", "suspended" (at its yield) or "closed" (returned or raised).
new_generator(questions, value) ==
    [questions |-> questions, value |-> value, yielded |-> 0, received |-> <<>>,
     state |-> "created"]

\* the generator goes round its for loop: it yields its next question, or
\* returns
g_resume(gen) ==
    IF gen.yielded < Len(gen.questions)
    THEN [g |-> [gen EXCEPT !.state = "suspended", !.yielded = @ + 1],
          err |-> "none", val |-> gen.questions[gen.yielded + 1][1]]
    ELSE [g |-> [gen EXCEPT !.state = "closed"],
          err |-> "StopIteration", val |-> gen.value]

\* next(g)
g_next(gen) ==
    IF gen.state = "closed"
    THEN [g |-> gen, err |-> "StopIteration", val |-> None]
    ELSE g_resume(gen)

\* g.send(value): answer = yield question gets value; a wrong answer raises
g_send(gen, value) ==
    IF gen.state = "closed"
    THEN [g |-> gen, err |-> "StopIteration", val |-> None]
    ELSE IF gen.state = "created"
    THEN [g |-> gen, err |-> "TypeError", val |-> None]
    ELSE LET answered       == [gen EXCEPT !.received = Append(@, value)]
             correct_answer == gen.questions[gen.yielded][2]
         IN  IF value # correct_answer
             THEN [g |-> [answered EXCEPT !.state = "closed"],
                   err |-> "ValueError", val |-> None]
             ELSE g_resume(answered)

\* The frame of the interface generator: pc is where it is suspended
\* ("created": not started; "yield_first": at the yield before the loop;
\* "yield_loop": at the yield in the loop; "closed": returned or raised).
new_frame ==
    [pc |-> "created", x |-> Unbound, awaiting_input |-> FALSE, stop_exc |-> None]

\* the closure send(value)
send(fr, gen, value) ==
    IF ~fr.awaiting_input
    THEN [frame |-> fr, g |-> gen, err |-> "TypeError", val |-> None]
    ELSE LET waiting == [fr EXCEPT !.awaiting_input = FALSE]
             sent    == g_send(gen, value)
         IN  IF sent.err = "StopIteration"
             THEN [frame |-> [waiting EXCEPT !.stop_exc = StopIteration(sent.val)],
                   g |-> sent.g, err |-> "none", val |-> None]
             ELSE IF sent.err = "none"
             THEN [frame |-> [waiting EXCEPT !.x = sent.val],
                   g |-> sent.g, err |-> "none", val |-> None]
             ELSE [frame |-> waiting, g |-> sent.g, err |-> sent.err, val |-> None]

\* next() on the interface generator: its body runs from fr.pc up to its
\* next yield (val is the x of the yielded pair (x, send)), its return or
\* its raise
ez_generator_interface(fr, gen) ==
    IF fr.pc = "created"
    THEN LET first == g_next(gen) IN
         IF first.err # "none"
         THEN [frame |-> [fr EXCEPT !.pc = "closed"], g |-> first.g,
               err |-> first.err, val |-> first.val]
         ELSE [frame |-> [fr EXCEPT !.pc = "yield_first", !.x = first.val,
                                     !.awaiting_input = TRUE],
               g |-> first.g, err |-> "none", val |-> first.val]
    ELSE IF fr.pc = "closed"
    THEN [frame |-> fr, g |-> gen, err |-> "StopIteration", val |-> None]
    ELSE IF fr.stop_exc = None
    THEN IF fr.awaiting_input
         THEN [frame |-> [fr EXCEPT !.pc = "closed"], g |-> gen,
               err |-> "TypeError", val |-> None]
         ELSE [frame |-> [fr EXCEPT !.pc = "yield_loop", !.awaiting_input = TRUE],
               g |-> gen, err |-> "none", val |-> fr.x]
    ELSE [frame |-> [fr EXCEPT !.pc = "closed"], g |-> gen,
          err |-> "StopIteration", val |-> fr.stop_exc.value]

\* one entry of the driver's log
advanced(outcome) == [step |-> "advance", err |-> outcome.err, val |-> outcome.val]

replied(outcome, value) == [step |-> "send", err |-> outcome.err, val |-> value]

\* a step made on g behind the interface's back
meddled(outcome, value) == [step |-> "meddle", err |-> outcome.err, val |-> value]

\* f"{prompt}\n> ", the text generator_dialogue hands to input
input_prompt(prompt) == ToString(prompt) \o "\n> "

\* the frame of generator_dialogue: pc is "for" (about to take the next
\* pair from the interface), "input" (about to call input), "send" (about to
\* call send), "returned" or "raised"
new_driver == [pc |-> "for", prompt |-> None, reply |-> None]

\* a caller that makes its own steps on the interface
FreeDriver == [pc |-> "free", prompt |-> None, reply |-> None]

---------------------------------------------------------------------------
(* Specification Spec: the codec and its utilities, applied to bounded      *)
(* inputs.  Each action is one call made by an idle caller; it records the  *)
(* call in op and args and its outcome in ret.                              *)

\* no other Multiset object
EmptyHeap == [other |-> <<>>, result |-> <<>>]

\* no generator, no interface
NoGenerator == [state |-> "absent"]

NoFrame == [pc |-> "absent"]

NoDriver == [pc |-> "absent"]

\* lists over S of length at most n
ListsUpTo(S, n) == UNION {[1..m -> S] : m \in 0..n}

Init ==
    /\ op = "idle"
    /\ args = <<>>
    /\ ret = Ok(<<>>)
    /\ sortedlist = <<>>
    /\ hashseed = 0
    /\ heap = EmptyHeap
    /\ wrapped = NoGenerator
    /\ frame = NoFrame
    /\ driver = NoDriver
    /\ log = <<>>

Call_fit_to_epoch_iterable ==
    \E i \in 0..MaxI, sizes \in ListsUpTo(0..MaxEpochSize, MaxEpochLen) :
        /\ op = "idle"
        /\ op' = "fit_to_epoch"
        /\ args' = [i |-> i, epochs |-> IterEpochs(sizes)]
        /\ ret' = fit_to_epoch(i, IterEpochs(sizes))
        /\ UNCHANGED <<sortedlist, hashseed, heap, dialogue>>

Call_fit_to_epoch_callable ==
    \E i \in 0..MaxI, n \in 1..MaxN :
        /\ op = "idle"
        /\ op' = "fit_to_epoch"
        /\ args' = [i |-> i, epochs |-> MulticombEpochs(n)]
        /\ ret' = fit_to_epoch(i, MulticombEpochs(n))
        /\ UNCHANGED <<sortedlist, hashseed, heap, dialogue>>

SearchPredicates ==
    {ThresholdPredicate(t) : t \in (0 - MaxNeg)..MaxThreshold}
    \cup {SquarePredicate(t) : t \in 0..(MaxThreshold * MaxThreshold)}

GrowthSteps == {TimesStep(base) : base \in 2..MaxBase} \cup {SquarePlusOneStep}

Call_search_maxsatisfying ==
    \E predicate \in SearchPredicates,
       initial \in (0 - MaxNeg)..MaxInitial,
       step \in GrowthSteps :
        /\ op = "idle"
        /\ op' = "search_maxsatisfying"
        /\ args' = [predicate |-> predicate, initial |-> initial, step |-> step]
        /\ ret' = search_maxsatisfying(predicate, initial, step)
        /\ UNCHANGED <<sortedlist, hashseed, heap, dialogue>>

Call_integer_to_combination ==
    \E i \in 0..MaxI, k \in 0..MaxK :
        /\ op = "idle"
        /\ op' = "integer_to_combination"
        /\ args' = [i |-> i, k |-> k]
        /\ ret' = integer_to_combination(i, k)
        /\ UNCHANGED <<sortedlist, hashseed, heap, dialogue>>

Call_combination_to_integer ==
    \E s \in {c \in SUBSET (0..MaxElem) : Cardinality(c) <= MaxK} :
        /\ op = "idle"
        /\ op' = "combination_to_integer"
        /\ args' = [s |-> s]
        /\ ret' = Ok(combination_to_integer(s))
        /\ UNCHANGED <<sortedlist, hashseed, heap, dialogue>>

Call_integer_to_varmultiset ==
    \E i \in 0..MaxI, n \in 1..MaxN :
        /\ op = "idle"
        /\ op' = "integer_to_varmultiset"
        /\ args' = [i |-> i, n |-> n]
        /\ ret' = integer_to_varmultiset(i, n)
        /\ UNCHANGED <<sortedlist, hashseed, heap, dialogue>>

Call_varmultiset_to_integer ==
    \E n \in 1..MaxN :
    \E elems \in ListsUpTo(0..(n - 1), MaxK) :
        LET ms == Multiset([p \in 1..Len(elems) |-> IntElem(elems[p])]) IN
        /\ op = "idle"
        /\ op' = "varmultiset_to_integer"
        /\ args' = [ms |-> ms, n |-> n]
        /\ ret' = Ok(varmultiset_to_integer(ms, n))
        /\ UNCHANGED <<sortedlist, hashseed, heap, dialogue>>

Call_MixedBase_to_int ==
    \E base \in ListsUpTo(1..MaxRadix, MaxDigits),
       value \in ListsUpTo((0 - 1)..MaxRadix, MaxDigits) :
        /\ op = "idle"
        /\ op' = "to_int"
        /\ args' = [base |-> base, value |-> value]
        /\ ret' = to_int(base, value)
        /\ UNCHANGED <<sortedlist, hashseed, heap, dialogue>>

Call_MixedBase_from_int ==
    \E base \in ListsUpTo(1..MaxRadix, MaxDigits), i \in 0..MaxI :
        /\ op = "idle"
        /\ op' = "from_int"
        /\ args' = [base |-> base, i |-> i]
        /\ ret' = from_int(base, i)
        /\ UNCHANGED <<sortedlist, hashseed, heap, dialogue>>

\* strings over the code points 0 .. k, the last one outside the alphabet
Call_string_rank ==
    \E k \in 2..MaxAlphabet :
    \E s \in ListsUpTo({chr(c) : c \in 0..k}, MaxStrLen) :
        /\ op = "idle"
        /\ op' = "string_rank"
        /\ args' = [s |-> s, k |-> k]
        /\ ret' = string_rank(s, k)
        /\ UNCHANGED <<sortedlist, hashseed, heap, dialogue>>

Call_string_unrank ==
    \E i \in 0..MaxI, k \in 2..MaxAlphabet :
        /\ op = "idle"
        /\ op' = "string_unrank"
        /\ args' = [i |-> i, k |-> k]
        /\ ret' = string_unrank(i, k)
        /\ UNCHANGED <<sortedlist, hashseed, heap, dialogue>>

Next ==
    \/ Call_fit_to_epoch_iterable
    \/ Call_fit_to_epoch_callable
    \/ Call_search_maxsatisfying
    \/ Call_integer_to_combination
    \/ Call_combination_to_integer
    \/ Call_integer_to_varmultiset
    \/ Call_varmultiset_to_integer
    \/ Call_MixedBase_to_int
    \/ Call_MixedBase_from_int
    \/ Call_string_rank
    \/ Call_string_unrank

Spec == Init /\ [][Next]_vars

---------------------------------------------------------------------------
(* Claims about the codec, checked under Spec *)

\* the sum of a list of integers
RECURSIVE SumOf(_)
SumOf(sizes) == IF sizes = <<>> THEN 0 ELSE Head(sizes) + SumOf(Tail(sizes))

\* the cumulative size of the epochs 0 .. e-1
RECURSIVE EpochsBefore(_, _)
EpochsBefore(epochs, e) ==
    IF e <= 0 THEN 0 ELSE EpochsAt(epochs, e - 1) + EpochsBefore(epochs, e - 1)

\* C1: for all i >= 0 and n >= 1, integer_to_varmultiset(i, n) completes
\* without error and varmultiset_to_integer of its result, with the same n,
\* is i.
C1_EncodeDecodeRoundTrip ==
    op = "integer_to_varmultiset" =>
        /\ ret.err = "none"
        /\ varmultiset_to_integer(ret.val, args.n) = args.i

\* C2: for every multiset ms over [0, n), the all-zero ones included,
\* integer_to_varmultiset(varmultiset_to_integer(ms, n), n) returns ms.
C2_DecodeEncodeRoundTrip ==
    op = "varmultiset_to_integer" =>
        integer_to_varmultiset(ret.val, args.n) = Ok(args.ms)

\* C3: the multiset returned by integer_to_varmultiset(i, n) has a size k
\* with sum_{j<k} multicomb(n, j) <= i < sum_{j<=k} multicomb(n, j), and each
\* of its elements lies in [0, n).
C3_SizeAndAlphabet ==
    op = "integer_to_varmultiset" =>
        /\ ret.err = "none"
        /\ LET k == Len(ret.val) IN
           /\ multicomb_sum(args.n, k) <= args.i
           /\ args.i < multicomb_sum(args.n, k + 1)
        /\ \A p \in 1..Len(ret.val) :
               /\ is_real(ret.val[p])
               /\ 0 <= ret.val[p][2]
               /\ ret.val[p][2] < args.n

\* C4: when the cumulative sum of the epoch sizes eventually exceeds i,
\* fit_to_epoch(i, epoch_sizes) returns (epoch_index, offset) with offset the
\* sum of the sizes of the epochs before epoch_index and
\* offset <= i < offset + epoch_sizes(epoch_index).
C4_FitLocatesEpoch ==
    (/\ op = "fit_to_epoch"
     /\ (args.epochs.kind = "iter" => SumOf(args.epochs.sizes) > args.i)) =>
        /\ ret.err = "none"
        /\ ret.val[2] = EpochsBefore(args.epochs, ret.val[1])
        /\ ret.val[2] <= args.i
        /\ args.i < ret.val[2] + EpochsAt(args.epochs, ret.val[1])

\* C5: on a finite epoch sequence whose total never exceeds i (total <= i,
\* the empty sequence included) fit_to_epoch raises the "exhausted epochs"
\* ValueError and returns nothing.
C5_FitExhausted ==
    (/\ op = "fit_to_epoch"
     /\ args.epochs.kind = "iter"
     /\ SumOf(args.epochs.sizes) <= args.i) =>
        ret.err = "ValueError"

\* C6: for fixed k >= 1 the two directions are inverse: for every i >= 0,
\* combination_to_integer(integer_to_combination(i, k)) = i, and for every
\* set s of k distinct non-negative integers,
\* integer_to_combination(combination_to_integer(s), k) = s.
C6_CombinationRoundTrips ==
    /\ (op = "integer_to_combination" /\ args.k >= 1) =>
           /\ ret.err = "none"
           /\ combination_to_integer(ret.val) = args.i
    /\ (op = "combination_to_integer" /\ Cardinality(args.s) >= 1) =>
           integer_to_combination(ret.val, Cardinality(args.s)) = Ok(args.s)

\* C6 witness: integer 7 was decoded into the 3-combination {0, 3, 4}
C6_Witness ==
    /\ op = "integer_to_combination"
    /\ args = [i |-> 7, k |-> 3]
    /\ ret = Ok({0, 3, 4})

\* arguments up to SearchHorizon cover every threshold of SearchPredicates
SearchHorizon == MaxThreshold * MaxThreshold + 1

\* C7: for initial >= 0 and a predicate that holds at initial and is
\* non-increasing, the search returns the greatest n >= initial at which the
\* predicate holds: predicate(result) is true and predicate(result + 1) false,
\* whatever the growth step.
C7_SearchFindsGreatest ==
    (/\ op = "search_maxsatisfying"
     /\ args.initial >= 0
     /\ predicate_holds(args.predicate, args.initial)) =>
        /\ ret.err = "none"
        /\ ret.val >= args.initial
        /\ predicate_holds(args.predicate, ret.val)
        /\ ~predicate_holds(args.predicate, ret.val + 1)
        /\ \A n \in args.initial..SearchHorizon :
               predicate_holds(args.predicate, n) => n <= ret.val

\* C7 witness: the search for n*n <= 50 from 0 returned 7
C7_Witness ==
    /\ op = "search_maxsatisfying"
    /\ args.predicate = SquarePredicate(50)
    /\ args.initial = 0
    /\ ret = Ok(7)

\* C8: with a negative initial and a non-increasing predicate that holds at
\* initial, the search returns the greatest n >= initial at which the
\* predicate holds.
C8_SearchNegativeInitial ==
    (/\ op = "search_maxsatisfying"
     /\ args.initial < 0
     /\ predicate_holds(args.predicate, args.initial)) =>
        /\ ret.err = "none"
        /\ ret.val >= args.initial
        /\ predicate_holds(args.predicate, ret.val)
        /\ \A n \in args.initial..SearchHorizon :
               predicate_holds(args.predicate, n) => n <= ret.val

\* the elements the monotone search finds for j, j-1, ..., 1, in that order
RECURSIVE FoundElements(_, _)
FoundElements(j, remainder) ==
    IF j < 1 THEN <<>>
    ELSE LET found == search_maxsatisfying(CombPredicate(j, remainder), 0,
                                           TimesStep(MaxBase)).val
         IN  <<found>> \o FoundElements(j - 1, remainder - comb(found, j))

\* C19: for i >= 0 and k >= 1, and for i = 0 with k = 0,
\* integer_to_combination(i, k) trips none of its assertions: every element
\* the search finds is strictly smaller than the one before, the remainder is
\* 0 after the k-th, and the set returned has exactly k distinct non-negative
\* integers.
C19_AssertionsNeverTrip ==
    (op = "integer_to_combination" /\ (args.k >= 1 \/ args.i = 0)) =>
        /\ ret.err = "none"
        /\ Cardinality(ret.val) = args.k
        /\ \A elem \in ret.val : elem >= 0
        /\ LET found == FoundElements(args.k, args.i) IN
           /\ \A j \in 1..(Len(found) - 1) : found[j + 1] < found[j]
           /\ ret.val = {found[j] : j \in 1..Len(found)}
           /\ args.i = SumOf([j \in 1..Len(found) |->
                                  comb(found[j], args.k + 1 - j)])

\* C19 witness: 12 was decoded into the 3-combination {1, 2, 5}
C19_Witness ==
    /\ op = "integer_to_combination"
    /\ args = [i |-> 12, k |-> 3]
    /\ ret = Ok({1, 2, 5})

\* acc = acc*b_j + digit_j over the digits j..m, most significant first,
\* digit j paired with the j-th declared radix
RECURSIVE FoldDeclared(_, _, _, _)
FoldDeclared(base, digits, j, acc) ==
    IF j > Len(base) THEN acc
    ELSE FoldDeclared(base, digits, j + 1, acc * base[j] + digits[j])

DigitsInRange(base, digits) ==
    /\ Len(digits) = Len(base)
    /\ \A j \in 1..Len(base) : 0 <= digits[j] /\ digits[j] < base[j]

\* C15: MixedBase.to_int(digits) pairs digit j with the j-th declared radix
\* and folds most significant first, acc = acc*b_j + digit_j; it fails with
\* a range error exactly when some digit_j lies outside [0, b_j).
C15_ToIntFoldsDeclaredOrder ==
    (op = "to_int" /\ Len(args.value) = Len(args.base)) =>
        IF DigitsInRange(args.base, args.value)
        THEN ret = Ok(FoldDeclared(args.base, args.value, 1, 0))
        ELSE ret.err = "ValueError"

\* C16: with order the product of the radixes, from_int(i) for 0 <= i < order
\* returns one digit per radix, in declared order and each inside its radix,
\* that to_int takes back to i; for i >= order it fails with a range error.
C16_FromIntInverse ==
    op = "from_int" =>
        IF args.i < order(args.base)
        THEN /\ ret.err = "none"
             /\ DigitsInRange(args.base, ret.val)
             /\ to_int(args.base, ret.val) = Ok(args.i)
        ELSE ret.err = "ValueError"

\* C21: string_rank and string_unrank are inverse on every finite string
\* over an alphabet of size k >= 2, the empty string and the strings made
\* only of the zero symbol included: string_unrank(string_rank(s, k), k) is
\* s; and string_unrank(i, k) completes without an assertion failure for
\* every i >= 0.
C21_StringRankRoundTrip ==
    /\ (op = "string_rank" /\ \A p \in 1..Len(args.s) : ord(args.s[p]) < args.k) =>
           /\ ret.err = "none"
           /\ string_unrank(ret.val, args.k) = Ok(args.s)
    /\ op = "string_unrank" => ret.err = "none"

---------------------------------------------------------------------------
(* Specification SpecMultiset: one Multiset (self) driven by a caller.  A  *)
(* call is made by an idle caller, acts on self.__sortedlist and records   *)
(* its arguments and outcome; Return hands control back to the caller.     *)

\* the elements offered to the Multiset: the integers 0 and 1 and the
\* strings "a" and "b"
Elements == {IntElem(v) : v \in 0..1} \cup {StrElem(c) : c \in 1..2}

RECURSIVE TotalLen(_)
TotalLen(lists) == IF lists = <<>> THEN 0 ELSE Len(Head(lists)) + TotalLen(Tail(lists))

\* the *others of a set operation: lists of elements, in any order
OthersArgs ==
    {others \in ListsUpTo(ListsUpTo(Elements, MaxOtherLen), MaxOthers) :
        TotalLen(others) <= MaxOtherLen}

\* Multiset(iterable) under either hash randomisation
InitMultiset ==
    /\ op = "idle"
    /\ args = <<>>
    /\ ret = Ok(<<>>)
    /\ hashseed \in {0, 1}
    /\ heap = EmptyHeap
    /\ wrapped = NoGenerator
    /\ frame = NoFrame
    /\ driver = NoDriver
    /\ log = <<>>
    /\ \E iterable \in ListsUpTo(Elements, MaxLen) : sortedlist = Multiset(iterable)

MS_add ==
    \E elem \in Elements :
        /\ op = "idle"
        /\ Len(sortedlist) < MaxLen
        /\ op' = "add"
        /\ args' = [self |-> sortedlist, elem |-> elem]
        /\ sortedlist' = extend(sortedlist, <<elem>>)
        /\ ret' = Ok(<<>>)
        /\ UNCHANGED <<hashseed, heap, dialogue>>

MS_extend ==
    \E iterable \in ListsUpTo(Elements, MaxLen) :
        /\ op = "idle"
        /\ Len(sortedlist) + Len(iterable) <= MaxLen
        /\ op' = "extend"
        /\ args' = [self |-> sortedlist, iterable |-> iterable]
        /\ sortedlist' = extend(sortedlist, iterable)
        /\ ret' = Ok(<<>>)
        /\ UNCHANGED <<hashseed, heap, dialogue>>

MS_clear ==
    /\ op = "idle"
    /\ op' = "clear"
    /\ args' = [self |-> sortedlist]
    /\ sortedlist' = <<>>
    /\ ret' = Ok(<<>>)
    /\ UNCHANGED <<hashseed, heap, dialogue>>

MS_union ==
    \E others \in OthersArgs :
        /\ op = "idle"
        /\ op' = "union"
        /\ args' = [self |-> sortedlist, others |-> others]
        /\ ret' = union(sortedlist, others)
        /\ UNCHANGED <<sortedlist, hashseed, heap, dialogue>>

MS_intersection ==
    \E others \in OthersArgs :
        /\ op = "idle"
        /\ op' = "intersection"
        /\ args' = [self |-> sortedlist, others |-> others]
        /\ ret' = intersection(sortedlist, others)
        /\ UNCHANGED <<sortedlist, hashseed, heap, dialogue>>

MS_difference ==
    \E others \in OthersArgs :
        /\ op = "idle"
        /\ op' = "difference"
        /\ args' = [self |-> sortedlist, others |-> others]
        /\ ret' = difference(sortedlist, others)
        /\ UNCHANGED <<sortedlist, hashseed, heap, dialogue>>

MS_symmetric_difference ==
    \E other \in ListsUpTo(Elements, MaxOtherLen) :
        /\ op = "idle"
        /\ op' = "symmetric_difference"
        /\ args' = [self |-> sortedlist, others |-> <<other>>]
        /\ ret' = symmetric_difference(sortedlist, other)
        /\ UNCHANGED <<sortedlist, hashseed, heap, dialogue>>

MS_intersection_update ==
    \E others \in OthersArgs :
        LET done == intersection_update(sortedlist, others) IN
        /\ op = "idle"
        /\ op' = "intersection_update"
        /\ args' = [self |-> sortedlist, others |-> others]
        /\ sortedlist' = done.val
        /\ ret' = [err |-> done.err, val |-> <<>>]
        /\ UNCHANGED <<hashseed, heap, dialogue>>

MS_difference_update ==
    \E others \in OthersArgs :
        LET done == difference_update(sortedlist, others) IN
        /\ op = "idle"
        /\ op' = "difference_update"
        /\ args' = [self |-> sortedlist, others |-> others]
        /\ sortedlist' = done.val
        /\ ret' = [err |-> done.err, val |-> <<>>]
        /\ UNCHANGED <<hashseed, heap, dialogue>>

MS_update ==
    \E others \in OthersArgs :
        LET done == update(sortedlist, others) IN
        /\ op = "idle"
        /\ Len(sortedlist) <= MaxLen
        /\ op' = "update"
        /\ args' = [self |-> sortedlist, others |-> others]
        /\ sortedlist' = done.val
        /\ ret' = [err |-> done.err, val |-> <<>>]
        /\ UNCHANGED <<hashseed, heap, dialogue>>

\* ms.update(ms): _maybe_cast_collection hands self back as the operand
MS_update_self ==
    LET done == update(sortedlist, <<sortedlist>>) IN
    /\ op = "idle"
    /\ op' = "update_self"
    /\ args' = [self |-> sortedlist, others |-> <<sortedlist>>]
    /\ sortedlist' = done.val
    /\ ret' = [err |-> done.err, val |-> <<>>]
    /\ UNCHANGED <<hashseed, heap, dialogue>>

MS_symmetric_difference_update ==
    \E other \in ListsUpTo(Elements, MaxOtherLen) :
        LET done == symmetric_difference_update(sortedlist, other) IN
        /\ op = "idle"
        /\ op' = "symmetric_difference_update"
        /\ args' = [self |-> sortedlist, others |-> <<other>>]
        /\ sortedlist' = done.val
        /\ ret' = [err |-> done.err, val |-> <<>>]
        /\ UNCHANGED <<hashseed, heap, dialogue>>

MS_issubset ==
    \E other \in ListsUpTo(Elements, MaxOtherLen) :
        /\ op = "idle"
        /\ op' = "issubset"
        /\ args' = [self |-> sortedlist, others |-> <<other>>]
        /\ ret' = issubset(sortedlist, other)
        /\ UNCHANGED <<sortedlist, hashseed, heap, dialogue>>

\* joint_group_count(self, *others) on Multiset operands
MS_joint_group_count ==
    \E others \in OthersArgs :
        /\ op = "idle"
        /\ op' = "joint_group_count"
        /\ args' = [self |-> sortedlist, others |-> others]
        /\ ret' = joint_group_count(<<sortedlist>> \o maybe_cast_all(others))
        /\ UNCHANGED <<sortedlist, hashseed, heap, dialogue>>

MS_Return ==
    /\ op # "idle"
    /\ op' = "idle"
    /\ args' = <<>>
    /\ ret' = Ok(<<>>)
    /\ UNCHANGED <<sortedlist, hashseed, heap, dialogue>>

NextMultiset ==
    \/ MS_add
    \/ MS_extend
    \/ MS_clear
    \/ MS_union
    \/ MS_intersection
    \/ MS_difference
    \/ MS_symmetric_difference
    \/ MS_intersection_update
    \/ MS_difference_update
    \/ MS_update
    \/ MS_update_self
    \/ MS_symmetric_difference_update
    \/ MS_issubset
    \/ MS_joint_group_count
    \/ MS_Return

SpecMultiset == InitMultiset /\ [][NextMultiset]_vars

---------------------------------------------------------------------------
(* Claims about the Multiset, checked under SpecMultiset *)

\* how often x occurs in a list of elements
Multiplicity(list, x) == Cardinality({p \in 1..Len(list) : list[p] = x})

\* the multiplicities of x in self and in each of the others
Multiplicities(self, others, x) ==
    <<Multiplicity(self, x)>> \o [j \in 1..Len(others) |-> Multiplicity(others[j], x)]

MaxOf(ns) == CHOOSE m \in {ns[j] : j \in 1..Len(ns)} : \A j \in 1..Len(ns) : ns[j] <= m

MinOf(ns) == CHOOSE m \in {ns[j] : j \in 1..Len(ns)} : \A j \in 1..Len(ns) : m <= ns[j]

\* ns[1] - ns[2] - ... - ns[upto], floored at 0 after every subtraction
RECURSIVE FlooredDifference(_, _)
FlooredDifference(ns, upto) ==
    IF upto = 1 THEN ns[1]
    ELSE LET d == FlooredDifference(ns, upto - 1) - ns[upto] IN
         IF d < 0 THEN 0 ELSE d

AbsoluteDifference(a, b) == IF a >= b THEN a - b ELSE b - a

\* C9: union, intersection, difference and symmetric_difference return a
\* multiset in which every element x has, respectively, the max, the min,
\* the left-to-right floored difference and the absolute difference of its
\* multiplicities in self and the others (so x is absent when that is 0).
C9_AlgebraMultiplicities ==
    op \in {"union", "intersection", "difference", "symmetric_difference"} =>
        /\ ret.err = "none"
        /\ \A x \in Elements :
               LET ns == Multiplicities(args.self, args.others, x) IN
               Multiplicity(ret.val, x) =
                   CASE op = "union" -> MaxOf(ns)
                     [] op = "intersection" -> MinOf(ns)
                     [] op = "difference" -> FlooredDifference(ns, Len(ns))
                     [] op = "symmetric_difference" -> AbsoluteDifference(ns[1], ns[2])

\* C10: intersection_update and difference_update leave self with, for every
\* element (integers included), the multiplicity it has in the multiset that
\* intersection / difference returns for the same operands.
C10_UpdateMatchesNew ==
    /\ (op = "intersection_update"
        /\ intersection(args.self, args.others).err = "none") =>
           /\ ret.err = "none"
           /\ \A x \in Elements :
                  Multiplicity(sortedlist, x) =
                      Multiplicity(intersection(args.self, args.others).val, x)
    /\ (op = "difference_update"
        /\ difference(args.self, args.others).err = "none") =>
           /\ ret.err = "none"
           /\ \A x \in Elements :
                  Multiplicity(sortedlist, x) =
                      Multiplicity(difference(args.self, args.others).val, x)

---------------------------------------------------------------------------
(* Specification SpecElements: one Multiset holding integers, strings and   *)
(* tuples, driven by a caller through the methods that act on single        *)
(* elements and through update.                                             *)

\* the integers 0 and 1, the strings "a" and "b", the bytes object b"a",
\* whose key is that of "a", and the tuples (), (0,) and ("b",)
AnyElements ==
    Elements \cup {BytesElem(1)}
             \cup {TupleElem(<<>>), TupleElem(<<IntElem(0)>>), TupleElem(<<StrElem(2)>>)}

InitElements ==
    /\ op = "idle"
    /\ args = <<>>
    /\ ret = Ok(<<>>)
    /\ hashseed \in {0, 1}
    /\ heap = EmptyHeap
    /\ wrapped = NoGenerator
    /\ frame = NoFrame
    /\ driver = NoDriver
    /\ log = <<>>
    /\ \E iterable \in ListsUpTo(AnyElements, MaxLen) : sortedlist = Multiset(iterable)

El_add ==
    \E elem \in AnyElements :
        /\ op = "idle"
        /\ Len(sortedlist) < MaxLen
        /\ op' = "add"
        /\ args' = [self |-> sortedlist, elem |-> elem]
        /\ sortedlist' = extend(sortedlist, <<elem>>)
        /\ ret' = Ok(<<>>)
        /\ UNCHANGED <<hashseed, heap, dialogue>>

El_extend ==
    \E iterable \in ListsUpTo(AnyElements, MaxLen) :
        /\ op = "idle"
        /\ Len(sortedlist) + Len(iterable) <= MaxLen
        /\ op' = "extend"
        /\ args' = [self |-> sortedlist, iterable |-> iterable]
        /\ sortedlist' = extend(sortedlist, iterable)
        /\ ret' = Ok(<<>>)
        /\ UNCHANGED <<hashseed, heap, dialogue>>

El_remove ==
    \E elem \in AnyElements :
        LET done == remove(sortedlist, elem) IN
        /\ op = "idle"
        /\ op' = "remove"
        /\ args' = [self |-> sortedlist, elem |-> elem]
        /\ sortedlist' = done.val
        /\ ret' = [err |-> done.err, val |-> <<>>]
        /\ UNCHANGED <<hashseed, heap, dialogue>>

El_discard ==
    \E elem \in AnyElements :
        /\ op = "idle"
        /\ op' = "discard"
        /\ args' = [self |-> sortedlist, elem |-> elem]
        /\ sortedlist' = discard(sortedlist, elem)
        /\ ret' = Ok(<<>>)
        /\ UNCHANGED <<hashseed, heap, dialogue>>

El_pop ==
    LET done == pop(sortedlist) IN
    /\ op = "idle"
    /\ op' = "pop"
    /\ args' = [self |-> sortedlist]
    /\ sortedlist' = done.list
    /\ ret' = [err |-> done.err, val |-> done.val]
    /\ UNCHANGED <<hashseed, heap, dialogue>>

El_clear ==
    /\ op = "idle"
    /\ op' = "clear"
    /\ args' = [self |-> sortedlist]
    /\ sortedlist' = <<>>
    /\ ret' = Ok(<<>>)
    /\ UNCHANGED <<hashseed, heap, dialogue>>

El_update ==
    \E other \in ListsUpTo(AnyElements, MaxOtherLen) :
        LET done == update(sortedlist, <<other>>) IN
        /\ op = "idle"
        /\ Len(sortedlist) <= MaxLen
        /\ op' = "update"
        /\ args' = [self |-> sortedlist, others |-> <<other>>]
        /\ sortedlist' = done.val
        /\ ret' = [err |-> done.err, val |-> <<>>]
        /\ UNCHANGED <<hashseed, heap, dialogue>>

El_Return ==
    /\ op # "idle"
    /\ op' = "idle"
    /\ args' = <<>>
    /\ ret' = Ok(<<>>)
    /\ UNCHANGED <<sortedlist, hashseed, heap, dialogue>>

NextElements ==
    \/ El_add
    \/ El_extend
    \/ El_remove
    \/ El_discard
    \/ El_pop
    \/ El_clear
    \/ El_update
    \/ El_Return

SpecElements == InitElements /\ [][NextElements]_vars

---------------------------------------------------------------------------
(* Specification SpecOwnership: the caller holds two Multiset objects, self *)
(* and other, calls a method of self that returns a Multiset, and then      *)
(* adds an element to one of the objects it holds.                          *)

\* the content of the object at a reference
Deref(ref) == IF ref = "self" THEN sortedlist ELSE heap[ref]

\* the object at ref gets the content list
Store(ref, list) ==
    /\ sortedlist' = IF ref = "self" THEN list ELSE sortedlist
    /\ heap' = IF ref \in {"other", "result"} THEN [heap EXCEPT ![ref] = list] ELSE heap

InitOwnership ==
    /\ op = "idle"
    /\ args = <<>>
    /\ ret = Ok(<<>>)
    /\ wrapped = NoGenerator
    /\ frame = NoFrame
    /\ driver = NoDriver
    /\ log = <<>>
    /\ hashseed \in {0, 1}
    /\ \E iterable \in ListsUpTo(Elements, MaxLen) : sortedlist = Multiset(iterable)
    /\ \E iterable \in ListsUpTo(Elements, MaxOtherLen) :
           heap = [other |-> Multiset(iterable), result |-> <<>>]

\* self.union(other), self | other
Own_union ==
    LET outcome == from_multiplicities_object(union(sortedlist, <<heap.other>>)) IN
    /\ op = "idle"
    /\ op' = "union"
    /\ args' = [self |-> sortedlist, other |-> heap.other]
    /\ Store(outcome.ref, outcome.list)
    /\ ret' = [err |-> outcome.err, val |-> outcome.ref]
    /\ UNCHANGED <<hashseed, dialogue>>

\* self.intersection(other), self & other
Own_intersection ==
    LET outcome == from_multiplicities_object(intersection(sortedlist, <<heap.other>>)) IN
    /\ op = "idle"
    /\ op' = "intersection"
    /\ args' = [self |-> sortedlist, other |-> heap.other]
    /\ Store(outcome.ref, outcome.list)
    /\ ret' = [err |-> outcome.err, val |-> outcome.ref]
    /\ UNCHANGED <<hashseed, dialogue>>

\* self.difference(other), self - other
Own_difference ==
    LET outcome == from_multiplicities_object(difference(sortedlist, <<heap.other>>)) IN
    /\ op = "idle"
    /\ op' = "difference"
    /\ args' = [self |-> sortedlist, other |-> heap.other]
    /\ Store(outcome.ref, outcome.list)
    /\ ret' = [err |-> outcome.err, val |-> outcome.ref]
    /\ UNCHANGED <<hashseed, dialogue>>

\* self.symmetric_difference(other), self ^ other
Own_symmetric_difference ==
    LET outcome == from_multiplicities_object(symmetric_difference(sortedlist, heap.other)) IN
    /\ op = "idle"
    /\ op' = "symmetric_difference"
    /\ args' = [self |-> sortedlist, other |-> heap.other]
    /\ Store(outcome.ref, outcome.list)
    /\ ret' = [err |-> outcome.err, val |-> outcome.ref]
    /\ UNCHANGED <<hashseed, dialogue>>

Own_copy ==
    LET outcome == copy(sortedlist) IN
    /\ op = "idle"
    /\ op' = "copy"
    /\ args' = [self |-> sortedlist, other |-> heap.other]
    /\ Store(outcome.ref, outcome.list)
    /\ ret' = [err |-> outcome.err, val |-> outcome.ref]
    /\ UNCHANGED <<hashseed, dialogue>>

\* self + other
Own_add_operator ==
    LET outcome == add_operator(sortedlist, heap.other) IN
    /\ op = "idle"
    /\ op' = "add_operator"
    /\ args' = [self |-> sortedlist, other |-> heap.other]
    /\ Store(outcome.ref, outcome.list)
    /\ ret' = [err |-> outcome.err, val |-> outcome.ref]
    /\ UNCHANGED <<hashseed, dialogue>>

\* self += other
Own_iadd_operator ==
    LET outcome == iadd_operator(sortedlist, heap.other) IN
    /\ op = "idle"
    /\ Len(sortedlist) + Len(heap.other) <= MaxLen
    /\ op' = "iadd_operator"
    /\ args' = [self |-> sortedlist, other |-> heap.other]
    /\ Store(outcome.ref, outcome.list)
    /\ ret' = [err |-> outcome.err, val |-> outcome.ref]
    /\ UNCHANGED <<hashseed, dialogue>>

\* the operations that promise a new Multiset
NewMultisetOps ==
    {"union", "intersection", "difference", "symmetric_difference", "copy",
     "add_operator"}

\* a call returned the reference ret.val
HoldsResult ==
    /\ op \in NewMultisetOps \cup {"iadd_operator"}
    /\ ret.err = "none"

\* what the caller remembers when it mutates an object after a call
Remembered ==
    [self |-> sortedlist, other |-> heap.other, result |-> Deref(ret.val),
     made_by |-> op]

\* the caller adds an element to the Multiset the call returned
Own_mutate_result ==
    \E elem \in Elements :
        /\ HoldsResult
        /\ Len(Deref(ret.val)) <= MaxLen + MaxOtherLen
        /\ op' = "mutate_result"
        /\ args' = Remembered
        /\ Store(ret.val, extend(Deref(ret.val), <<elem>>))
        /\ UNCHANGED <<ret, hashseed, dialogue>>

\* the caller adds an element to self
Own_mutate_self ==
    \E elem \in Elements :
        /\ HoldsResult
        /\ Len(sortedlist) < MaxLen
        /\ op' = "mutate_self"
        /\ args' = Remembered
        /\ Store("self", extend(sortedlist, <<elem>>))
        /\ UNCHANGED <<ret, hashseed, dialogue>>

\* the caller adds an element to other
Own_mutate_other ==
    \E elem \in Elements :
        /\ HoldsResult
        /\ Len(heap.other) < MaxOtherLen
        /\ op' = "mutate_other"
        /\ args' = Remembered
        /\ Store("other", extend(heap.other, <<elem>>))
        /\ UNCHANGED <<ret, hashseed, dialogue>>

\* the caller drops the result
Own_Return ==
    /\ op # "idle"
    /\ op' = "idle"
    /\ args' = <<>>
    /\ ret' = Ok(<<>>)
    /\ heap' = [heap EXCEPT !.result = <<>>]
    /\ UNCHANGED <<sortedlist, hashseed, dialogue>>

NextOwnership ==
    \/ Own_union
    \/ Own_intersection
    \/ Own_difference
    \/ Own_symmetric_difference
    \/ Own_copy
    \/ Own_add_operator
    \/ Own_iadd_operator
    \/ Own_mutate_result
    \/ Own_mutate_self
    \/ Own_mutate_other
    \/ Own_Return

SpecOwnership == InitOwnership /\ [][NextOwnership]_vars

---------------------------------------------------------------------------
(* Claims about the Multiset, continued *)

\* C11: symmetric_difference_update(other) leaves self with, for every
\* element, the absolute difference of its prior multiplicity in self and its
\* multiplicity in other, which is what symmetric_difference(other) returns;
\* other may be non-empty.
C11_SymmetricUpdateMatchesNew ==
    (op = "symmetric_difference_update"
     /\ symmetric_difference(args.self, args.others[1]).err = "none") =>
        /\ ret.err = "none"
        /\ \A x \in Elements :
               /\ Multiplicity(sortedlist, x) =
                      AbsoluteDifference(Multiplicity(args.self, x),
                                         Multiplicity(args.others[1], x))
               /\ Multiplicity(sortedlist, x) =
                      Multiplicity(symmetric_difference(args.self, args.others[1]).val, x)

\* C12: update(*others) leaves self with, for every element, the max of its
\* prior multiplicity in self and its multiplicities in the others, which is
\* what union(*others) returns; copies are only added, never removed; the
\* same holds when the operand is self itself.
C12_UpdateMatchesUnion ==
    op \in {"update", "update_self"} =>
        /\ ret.err = "none"
        /\ \A x \in Elements :
               /\ Multiplicity(sortedlist, x) =
                      MaxOf(Multiplicities(args.self, args.others, x))
               /\ Multiplicity(sortedlist, x) >= Multiplicity(args.self, x)
        /\ union(args.self, args.others) = Ok(sortedlist)

\* C13: remove(elem), for an element of any type, integers included: when
\* elem occurs in the multiset its multiplicity decreases by exactly 1 and no
\* other multiplicity changes; when it does not occur the call fails with a
\* not-found error and the multiset is unchanged.
C13_RemoveOne ==
    op = "remove" =>
        IF Multiplicity(args.self, args.elem) >= 1
        THEN /\ ret.err = "none"
             /\ \A x \in AnyElements :
                    Multiplicity(sortedlist, x) =
                        Multiplicity(args.self, x) - (IF x = args.elem THEN 1 ELSE 0)
        ELSE /\ ret.err \in {"KeyError", "ValueError"}
             /\ sortedlist = args.self

\* a list is in canonical order: its elements are in non-decreasing order of
\* hashable_universal_key
CanonicalOrder(list) ==
    \A p, q \in 1..Len(list) :
        p < q => ~key_lt(hashable_universal_key(list[q]), hashable_universal_key(list[p]))

\* a list back to front
Reversed(list) == [p \in 1..Len(list) |-> list[Len(list) + 1 - p]]

\* C14: after construction and after every add, extend, discard, pop, clear
\* and update the multiset iterates in non-decreasing order of the universal
\* key (numbers, then tuples, then opaque values), so that its iteration is
\* fixed by its content alone whatever the order of insertion, and pop
\* returns the least element and removes one copy of it.
C14_CanonicalIteration ==
    /\ CanonicalOrder(sortedlist)
    /\ \A p, q \in 1..Len(sortedlist) :
           p < q => hashable_universal_key(sortedlist[p])[1]
                        <= hashable_universal_key(sortedlist[q])[1]
    /\ op \in {"add", "extend"} =>
           LET inserted == args.self \o
                           (IF op = "add" THEN <<args.elem>> ELSE args.iterable)
           IN  sortedlist = Multiset(Reversed(inserted))
    /\ (op = "pop" /\ args.self # <<>>) =>
           /\ ret.err = "none"
           /\ \A p \in 1..Len(args.self) :
                  ~key_lt(hashable_universal_key(args.self[p]),
                          hashable_universal_key(ret.val))
           /\ \A x \in AnyElements :
                  Multiplicity(sortedlist, x) =
                      Multiplicity(args.self, x) - (IF x = ret.val THEN 1 ELSE 0)
    /\ (op = "pop" /\ args.self = <<>>) => ret.err = "KeyError"

\* C17: union, intersection, difference, symmetric_difference, copy and the
\* operators +, |, &, -, ^ leave self and the other operand as they were and
\* return a Multiset of their own: adding an element to the result afterwards
\* changes neither operand, and adding an element to an operand afterwards
\* does not change the result.
C17_ResultOwnsItsStorage ==
    /\ op \in NewMultisetOps =>
           /\ sortedlist = args.self
           /\ heap.other = args.other
           /\ ret.err = "none" => ret.val \notin {"self", "other"}
    /\ (op = "mutate_result" /\ args.made_by \in NewMultisetOps) =>
           /\ sortedlist = args.self
           /\ heap.other = args.other
           /\ Len(Deref(ret.val)) = Len(args.result) + 1
    /\ (op \in {"mutate_self", "mutate_other"} /\ args.made_by \in NewMultisetOps) =>
           Deref(ret.val) = args.result

\* C17 witness: after [0] + [1] returned [0, 1], 1 was added to the result
\* and self is still [0]
C17_Witness ==
    /\ op = "mutate_result"
    /\ args.made_by = "add_operator"
    /\ args.self = <<IntElem(0)>>
    /\ args.other = <<IntElem(1)>>
    /\ heap.result = <<IntElem(0), IntElem(1), IntElem(1)>>
    /\ sortedlist = <<IntElem(0)>>

\* C18: for all multisets A and B, A.issubset(B) is true exactly when every
\* element is at most as often in A as in B, and exactly when
\* A.union(B) == B.
C18_SubsetIffUnionIsOther ==
    op = "issubset" =>
        LET A == args.self
            B == args.others[1]
            AunionB == union(A, <<B>>)
        IN  /\ ret.err = "none"
            /\ ret.val = (\A x \in Elements : Multiplicity(A, x) <= Multiplicity(B, x))
            /\ AunionB.err = "none"
            /\ eq(AunionB.val, B) = Ok(ret.val)

\* C20: for any operand multisets, strings (which the universal key orders
\* by hash) included, joint_group_count yields every distinct element of the
\* operands exactly once, with the tuple of its multiplicities in the
\* operands: no element is split over two groups, no occurrence is lost.
C20_WalkGroupsEveryElementOnce ==
    op = "joint_group_count" =>
        /\ ret.err = "none"
        /\ \A x \in Elements :
               LET ns     == Multiplicities(args.self, args.others, x)
                   groups == {p \in 1..Len(ret.val) : ret.val[p][1] = x}
               IN  IF \A j \in 1..Len(ns) : ns[j] = 0
                   THEN groups = {}
                   ELSE /\ Cardinality(groups) = 1
                        /\ \A p \in groups : ret.val[p][2] = ns

---------------------------------------------------------------------------
(* Specification SpecDialogue: ez_generator_interface(g) is driven either  *)
(* by a caller of its own, which advances the interface and calls the send *)
(* it was handed in any order, or by generator_dialogue, step by step, with *)
(* an input callback that returns any reply, raises, or resumes g itself.  *)

\* the (question, correct_answer) pairs of a wrapped generator
Questions == (1..MaxPrompt) \X (0..MaxValue)

InitDialogue ==
    /\ op = "idle"
    /\ args = <<>>
    /\ ret = Ok(<<>>)
    /\ sortedlist = <<>>
    /\ hashseed = 0
    /\ heap = EmptyHeap
    /\ \E questions \in ListsUpTo(Questions, MaxPrompts), value \in 0..MaxValue :
           wrapped = new_generator(questions, value)
    /\ frame = new_frame
    /\ log = <<>>
    /\ driver \in {FreeDriver, new_driver}

\* the driver holds send once the interface has yielded a pair (x, send)
HoldsSend ==
    SelectSeq(log, LAMBDA e : e.step = "advance" /\ e.err = "none") # <<>>

\* next() on the interface
Drv_advance ==
    LET turn == ez_generator_interface(frame, wrapped) IN
    /\ driver.pc = "free"
    /\ Len(log) < MaxSteps
    /\ op' = "advance"
    /\ args' = <<>>
    /\ ret' = [err |-> turn.err, val |-> turn.val]
    /\ frame' = turn.frame
    /\ wrapped' = turn.g
    /\ log' = Append(log, advanced(turn))
    /\ UNCHANGED <<sortedlist, hashseed, heap, driver>>

\* send(value)
Drv_send ==
    \E value \in 0..MaxValue :
        LET reply == send(frame, wrapped, value) IN
        /\ driver.pc = "free"
        /\ HoldsSend
        /\ Len(log) < MaxSteps
        /\ op' = "send"
        /\ args' = [value |-> value]
        /\ ret' = [err |-> reply.err, val |-> reply.val]
        /\ frame' = reply.frame
        /\ wrapped' = reply.g
        /\ log' = Append(log, replied(reply, value))
        /\ UNCHANGED <<sortedlist, hashseed, heap, driver>>

\* generator_dialogue: the for statement takes the next pair (prompt, send)
\* from the interface, or ends the loop
Dlg_for ==
    LET turn == ez_generator_interface(frame, wrapped) IN
    /\ driver.pc = "for"
    /\ op' = "advance"
    /\ args' = <<>>
    /\ ret' = [err |-> turn.err, val |-> turn.val]
    /\ frame' = turn.frame
    /\ wrapped' = turn.g
    /\ log' = Append(log, advanced(turn))
    /\ driver' = IF turn.err = "none"
                 THEN [driver EXCEPT !.pc = "input", !.prompt = turn.val]
                 ELSE IF turn.err = "StopIteration"
                 THEN [driver EXCEPT !.pc = "returned"]
                 ELSE [driver EXCEPT !.pc = "raised"]
    /\ UNCHANGED <<sortedlist, hashseed, heap>>

\* generator_dialogue: input(f"{prompt}\n> ") returns a reply
Dlg_input_returns ==
    \E reply \in 0..MaxValue :
        /\ driver.pc = "input"
        /\ op' = "input"
        /\ args' = [prompt |-> input_prompt(driver.prompt)]
        /\ ret' = Ok(reply)
        /\ driver' = [driver EXCEPT !.pc = "send", !.reply = reply]
        /\ UNCHANGED <<sortedlist, hashseed, heap, wrapped, frame, log>>

\* generator_dialogue: input(f"{prompt}\n> ") raises (EOFError of the
\* builtin input on an exhausted stdin), which ends generator_dialogue.  As
\* the exception unwinds the for statement, which holds the only reference
\* to the interface generator, the interface is finalized: GeneratorExit is
\* thrown at the yield it is suspended at and its frame ends, its variables
\* as they were.  The wrapped generator, which the caller holds, is left
\* alone.
Dlg_input_raises ==
    /\ driver.pc = "input"
    /\ op' = "input"
    /\ args' = [prompt |-> input_prompt(driver.prompt)]
    /\ ret' = Raise("EOFError")
    /\ frame' = [frame EXCEPT !.pc = "closed"]
    /\ driver' = [driver EXCEPT !.pc = "raised"]
    /\ UNCHANGED <<sortedlist, hashseed, heap, wrapped, log>>

\* generator_dialogue: the input callback, before it returns, resumes g
\* itself with g.send(value)
Dlg_input_resumes_g ==
    \E value \in 0..MaxValue :
        LET sent == g_send(wrapped, value) IN
        /\ driver.pc = "input"
        /\ Len(log) < MaxSteps
        /\ op' = "meddle"
        /\ args' = [value |-> value]
        /\ ret' = [err |-> sent.err, val |-> sent.val]
        /\ wrapped' = sent.g
        /\ log' = Append(log, meddled(sent, value))
        /\ UNCHANGED <<sortedlist, hashseed, heap, frame, driver>>

\* generator_dialogue: send(reply); an exception ends generator_dialogue
\* and, as it unwinds the for statement, finalizes the interface generator
\* at the yield it is suspended at
Dlg_send ==
    LET reply == send(frame, wrapped, driver.reply) IN
    /\ driver.pc = "send"
    /\ op' = "send"
    /\ args' = [value |-> driver.reply]
    /\ ret' = [err |-> reply.err, val |-> reply.val]
    /\ frame' = IF reply.err = "none"
                THEN reply.frame
                ELSE [reply.frame EXCEPT !.pc = "closed"]
    /\ wrapped' = reply.g
    /\ log' = Append(log, replied(reply, driver.reply))
    /\ driver' = IF reply.err = "none"
                 THEN [driver EXCEPT !.pc = "for"]
                 ELSE [driver EXCEPT !.pc = "raised"]
    /\ UNCHANGED <<sortedlist, hashseed, heap>>

NextDialogue ==
    \/ Drv_advance
    \/ Drv_send
    \/ Dlg_for
    \/ Dlg_input_returns
    \/ Dlg_input_raises
    \/ Dlg_input_resumes_g
    \/ Dlg_send

SpecDialogue == InitDialogue /\ [][NextDialogue]_vars

---------------------------------------------------------------------------
(* Claims about ez_generator_interface, checked under SpecDialogue *)

\* the prompts the interface has yielded to the driver, in order
Delivered(steps) ==
    LET yields == SelectSeq(steps, LAMBDA e : e.step = "advance" /\ e.err = "none")
    IN  [p \in 1..Len(yields) |-> yields[p].val]

\* the values of the sends the interface accepted (passed on to the wrapped
\* generator), in order
Accepted(steps) ==
    LET sends == SelectSeq(steps, LAMBDA e : e.step = "send" /\ e.err # "TypeError")
    IN  [p \in 1..Len(sends) |-> sends[p].val]

\* the last prompt yielded to the driver has had no send yet
PromptOpen(steps) == Len(Accepted(steps)) < Len(Delivered(steps))

\* an advance has ended the interface: it returned or raised
Terminated(steps) ==
    \E p \in 1..Len(steps) : steps[p].step = "advance" /\ steps[p].err # "none"

\* the driver advances, sends once for the prompt it got, and so on, and
\* nothing else resumes the wrapped generator
SendsOncePerPrompt(steps) ==
    \A p \in 1..Len(steps) :
        IF p % 2 = 1 THEN steps[p].step = "advance"
        ELSE steps[p].step = "send" /\ steps[p - 1].err = "none"

\* the questions of the wrapped generator
Prompts(gen) == [p \in 1..Len(gen.questions) |-> gen.questions[p][1]]

\* what one step on the interface does, under every interleaving
OneSendPerPrompt ==
    /\ (op' = "send" /\ PromptOpen(log)) =>
           /\ ret'.err # "TypeError"
           /\ wrapped.state = "suspended" =>
                  wrapped'.received = Append(wrapped.received, args'.value)
    /\ (op' = "send" /\ ~PromptOpen(log)) =>
           /\ ret'.err = "TypeError"
           /\ wrapped' = wrapped
    /\ (op' = "advance" /\ PromptOpen(log) /\ ~Terminated(log)) =>
           /\ ret'.err = "TypeError"
           /\ wrapped' = wrapped
    /\ (op' \in {"advance", "send"} /\ ret'.err = "TypeError") => wrapped' = wrapped

\* what a driver that sends once per prompt has seen so far
InOrderDelivery ==
    SendsOncePerPrompt(log) =>
        LET delivered == Delivered(log) IN
        /\ \A p \in 1..Len(log) : log[p].err # "TypeError"
        /\ Len(delivered) <= Len(wrapped.questions)
        /\ delivered = SubSeq(Prompts(wrapped), 1, Len(delivered))
        /\ (log # <<>> /\ log[Len(log)].step = "advance" /\ log[Len(log)].err = "none") =>
               Len(delivered) = wrapped.yielded
        /\ (log # <<>> /\ log[Len(log)].step = "advance" /\ wrapped.state = "closed") =>
               log[Len(log)].err = "StopIteration"

\* C22: in ez_generator_interface, under every interleaving of the driver
\* steps advance and send, each yielded prompt accepts exactly one send: a
\* second send before advancing raises TypeError, and advancing without a
\* send raises TypeError, both without resuming the wrapped generator; and
\* when the driver sends exactly once per prompt, the wrapped generator's
\* prompts are delivered in order, each exactly once, and the interface
\* finishes as soon as the wrapped generator finishes.
C22_OneSendPerPromptInOrder == [][OneSendPerPrompt /\ InOrderDelivery']_vars

====
